---- MODULE Spec2Model ----
(***************************************************************************)
(* Model of the try-on backend: the Express server (the provider-based     *)
(* server and the older single-file server.js), the provider factory and   *)
(* the Gemini and HuggingFace providers.                                   *)
(*                                                                         *)
(* Text is a sequence of tokens.  A token is a piece of text that no       *)
(* needle of the code (includes / endsWith / replace / split / trim)       *)
(* cuts through, so the string functions below, which work on whole        *)
(* tokens, compute what the JavaScript ones compute on the characters.     *)
(* A missing JSON key or an undefined property is a record without that    *)
(* field; an undefined string is the text Undefined.                       *)
(***************************************************************************)
EXTENDS Integers, Sequences, FiniteSets, TLC

\* ------------------------------------------------------------- bounds
\* the number of HTTP requests the server is sent in one behaviour
MaxRequests == 2

\* ------------------------------------------------------- text helpers
Undefined == <<"undefined">>

\* JavaScript truthiness of a string-or-undefined value
Truthy(s) == s # Undefined /\ s # <<>>

MatchesAt(s, n, i) == i + Len(n) - 1 <= Len(s) /\ SubSeq(s, i, i + Len(n) - 1) = n

\* String.prototype.includes
Includes(s, n) == \E i \in 1..(Len(s) + 1) : MatchesAt(s, n, i)

\* String.prototype.endsWith
EndsWith(s, n) == Len(n) <= Len(s) /\ SubSeq(s, Len(s) - Len(n) + 1, Len(s)) = n

\* String.prototype.replace(needle, by) with a string needle: the first
\* occurrence only
Replace(s, n, by) ==
    IF ~Includes(s, n) THEN s
    ELSE LET i == CHOOSE k \in 1..(Len(s) + 1) :
                      MatchesAt(s, n, k) /\ \A j \in 1..(k - 1) : ~MatchesAt(s, n, j)
         IN  SubSeq(s, 1, i - 1) \o by \o SubSeq(s, i + Len(n), Len(s))

IsSpace(t) == t = " "

RECURSIVE TrimStart(_)
TrimStart(s) == IF s # <<>> /\ IsSpace(Head(s)) THEN TrimStart(Tail(s)) ELSE s

RECURSIVE TrimEnd(_)
TrimEnd(s) ==
    IF s # <<>> /\ IsSpace(s[Len(s)]) THEN TrimEnd(SubSeq(s, 1, Len(s) - 1)) ELSE s

\* String.prototype.trim
Trim(s) == TrimEnd(TrimStart(s))

\* String.prototype.split(','): the pieces between the commas, empty ones kept
RECURSIVE Split(_)
Split(s) ==
    IF \A i \in 1..Len(s) : s[i] # "," THEN <<s>>
    ELSE LET i == CHOOSE k \in 1..Len(s) : s[k] = "," /\ \A j \in 1..(k - 1) : s[j] # ","
         IN  <<SubSeq(s, 1, i - 1)>> \o Split(SubSeq(s, i + 1, Len(s)))

LowerChar(c) ==
    CASE c = "G" -> "g" [] c = "E" -> "e" [] c = "M" -> "m" [] c = "I" -> "i"
      [] c = "N" -> "n" [] c = "H" -> "h" [] c = "U" -> "u" [] c = "F" -> "f"
      [] c = "A" -> "a" [] c = "C" -> "c" [] c = "O" -> "o" [] c = "P" -> "p"
      [] OTHER -> c

\* String.prototype.toLowerCase
ToLowerCase(s) == [i \in 1..Len(s) |-> LowerChar(s[i])]

\* -------------------------------------------------- program constants
DefaultModel == <<"gemini-2.5-", "flash", "-image">>

Sentinel == <<"429", "_QUOTA">>
SentinelPrefix == <<"429", "_QUOTA", ": ">>

UpsellMsg ==
    <<"Quota", " Exceeded. This model may require billing. Try 'gemini-2.0-",
      "flash", "-", "exp", "' for free access.">>
GenericQuotaMsg == <<"Quota", " Exceeded. Please check your Google AI Studio billing.">>

MissingDataMsg == <<"Missing userImage or productImageUrl">>
UntrustedUrlMsg == <<"Invalid or untrusted product image URL.">>
SupportedMsg == <<"'. Supported: ", "g", "e", "m", "i", "n", "i", ", ",
                  "h", "u", "g", "g", "i", "n", "g", "f", "a", "c", "e">>

GeminiName == <<"g", "e", "m", "i", "n", "i">>
HuggingFaceName == <<"h", "u", "g", "g", "i", "n", "g", "f", "a", "c", "e">>

defaultTrusted ==
    << <<"framerusercontent", ".", "com">>,
       <<"cdn", ".", "shopify", ".", "com">>,
       <<"shopify", ".", "com">>,
       <<"images", ".", "unsplash", ".", "com">> >>

\* ------------------------------------------------------------- inputs
\* What new URL(productImageUrl) makes of the string: it throws (no
\* "protocol" field here), or gives a protocol and a hostname.
Url(p, h) == [protocol |-> p, hostname |-> h]
BadUrl == [raw |-> <<"not a url">>]

Urls ==
    { Url("https:", <<"cdn", ".", "shopify", ".", "com">>),
      Url("http:", <<"evil", "shopify", ".", "com">>),
      Url("https:", <<"cdn", ".", "shopify", ".", "com", ".", "attacker", ".", "net">>),
      Url("https:", <<"img", ".", "example", ".", "org">>),
      Url("file:", <<"shopify", ".", "com">>),
      Url("ftp:", <<"cdn", ".", "shopify", ".", "com">>),
      BadUrl }

\* the productImageUrl of a request body: a URL string, or missing
NoUrl == [missing |-> TRUE]
UrlInputs == Urls \cup {NoUrl}

\* the userImage of a request body: { data, mimeType }, or missing
NoImage == [missing |-> TRUE]
UserImages == {[data |-> "b64U", mimeType |-> "image/jpeg"], NoImage}

\* process.env.TRUSTED_DOMAINS: unset, or a comma-separated list
TrustedDomainsValues ==
    { Undefined,
      <<"example", ".", "org", ",", " ", "mycdn", ".", "io", " ">>,
      <<"example", ".", "org", ",">> }

\* Buffer.from(bytes).toString('base64')
Base64(b) ==
    CASE b = "bytesP" -> "b64P" [] b = "bytesG" -> "b64G" [] OTHER -> "b64"

VARIABLES
    build,                \* "modular": the provider-based server; "legacy": server.js
    trustedDomainsEnv,    \* process.env.TRUSTED_DOMAINS
    currentProviderName,
    currentApiKey,
    currentModel,
    pc,                   \* where the generate-tryon request in flight is suspended
    userImage,
    productImageUrl,
    provider,             \* the provider instance of the request, once constructed
    outbound,             \* the outbound calls the request has issued, in order
    upstream,             \* what the upstream calls of the request answered
    responses,            \* the responses sent for the request, in order
    adminResponse,        \* the response to the last admin request
    vpc,                  \* where the validate-key request in flight is suspended
    vprovider,            \* its provider instance
    validation,           \* what its provider.validate() call did
    nRequests,            \* the requests received so far
    lastConfigProvider,   \* history: the provider field of the last config update processed
    tpc,                  \* where the test-generation request in flight is suspended
    tprovider,            \* its provider instance
    page,                 \* the response to the last GET request
    lastRequest,          \* history: the last request received, with its credentials
                          \* when it is a config update of the provider-based server
    startConfig           \* history: the runtime config when the generate-tryon
                          \* request in flight arrived

configVars == <<currentProviderName, currentApiKey, currentModel, lastConfigProvider>>
envVars == <<build, trustedDomainsEnv>>
requestVars == <<pc, userImage, productImageUrl, provider, outbound, upstream, responses,
                 startConfig>>
validateVars == <<vpc, vprovider, validation>>
testVars == <<tpc, tprovider>>

vars == <<build, trustedDomainsEnv, currentProviderName, currentApiKey, currentModel,
          pc, userImage, productImageUrl, provider, outbound, upstream, responses,
          adminResponse, vpc, vprovider, validation, nRequests, lastConfigProvider,
          tpc, tprovider, page, lastRequest, startConfig>>

NoProvider == [kind |-> "none"]
NoResponse == [none |-> TRUE]
NoValidation == [none |-> TRUE]

Response(status, body) == [status |-> status, body |-> body]
ErrorBody(msg) == [error |-> msg]

\* ---------------------------------------------------------- SSRF guard
\* The guard without its protocol check.
SsrfErrorNoProtocolCheck(url, env) ==
    IF "protocol" \notin DOMAIN url THEN <<"Invalid URL">>
    ELSE LET envTrusted == IF Truthy(env) THEN Split(env) ELSE <<>>
             trustedDomains == defaultTrusted \o envTrusted
         IN  IF ~\E k \in 1..Len(trustedDomains) :
                     EndsWith(url.hostname, Trim(trustedDomains[k]))
             THEN <<"Domain not trusted: ">> \o url.hostname
             ELSE <<>>

\* The message of the error the guard's try block throws, or <<>> when it
\* throws nothing.
SsrfError(url, env) ==
    IF "protocol" \notin DOMAIN url THEN <<"Invalid URL">>
    ELSE IF url.protocol # "http:" /\ url.protocol # "https:" THEN <<"Invalid protocol">>
    ELSE LET envTrusted == IF Truthy(env) THEN Split(env) ELSE <<>>
             trustedDomains == defaultTrusted \o envTrusted
         IN  IF ~\E k \in 1..Len(trustedDomains) :
                     EndsWith(url.hostname, Trim(trustedDomains[k]))
             THEN <<"Domain not trusted: ">> \o url.hostname
             ELSE <<>>

Init ==
    /\ build \in {"modular", "legacy"}
    /\ trustedDomainsEnv \in TrustedDomainsValues
    /\ currentProviderName = GeminiName
    /\ currentApiKey \in {Undefined, <<"k0">>}
    /\ currentModel = DefaultModel
    /\ pc = "idle"
    /\ userImage = NoImage
    /\ productImageUrl = NoUrl
    /\ provider = NoProvider
    /\ outbound = <<>>
    /\ upstream = <<>>
    /\ responses = <<>>
    /\ adminResponse = NoResponse
    /\ vpc = "idle"
    /\ vprovider = NoProvider
    /\ validation = NoValidation
    /\ nRequests = 0
    /\ lastConfigProvider = Undefined
    /\ tpc = "idle"
    /\ tprovider = NoProvider
    /\ page = NoResponse
    /\ lastRequest = [route |-> "none"]
    /\ startConfig = <<currentProviderName, currentApiKey, currentModel>>

\* the handler answering a rejected URL with the reason of the rejection
GenerateStartEchoReason(ui, url) ==
    /\ pc \in {"idle", "done"}
    /\ nRequests < MaxRequests
    /\ nRequests' = nRequests + 1
    /\ lastRequest' = [route |-> "other"]
    /\ startConfig' = <<currentProviderName, currentApiKey, currentModel>>
    /\ userImage' = ui
    /\ productImageUrl' = url
    /\ provider' = NoProvider
    /\ upstream' = <<>>
    /\ IF ui = NoImage \/ url = NoUrl
       THEN /\ responses' = <<Response(400, ErrorBody(MissingDataMsg))>>
            /\ outbound' = <<>>
            /\ pc' = "done"
       ELSE IF SsrfError(url, trustedDomainsEnv) # <<>>
       THEN /\ responses' = <<Response(400, ErrorBody(SsrfError(url, trustedDomainsEnv)))>>
            /\ outbound' = <<>>
            /\ pc' = "done"
       ELSE /\ responses' = <<>>
            /\ outbound' = <<[to |-> "product", url |-> url]>>
            /\ pc' = "fetching"
    /\ UNCHANGED <<envVars, configVars, adminResponse, validateVars, testVars,
                   page>>

\* A request arrives: input validation and the SSRF guard run, and the
\* fetch of the product image is issued.
GenerateStart(ui, url) ==
    /\ pc \in {"idle", "done"}
    /\ nRequests < MaxRequests
    /\ nRequests' = nRequests + 1
    /\ lastRequest' = [route |-> "other"]
    /\ startConfig' = <<currentProviderName, currentApiKey, currentModel>>
    /\ userImage' = ui
    /\ productImageUrl' = url
    /\ provider' = NoProvider
    /\ upstream' = <<>>
    /\ IF ui = NoImage \/ url = NoUrl
       THEN /\ responses' = <<Response(400, ErrorBody(MissingDataMsg))>>
            /\ outbound' = <<>>
            /\ pc' = "done"
       ELSE IF SsrfError(url, trustedDomainsEnv) # <<>>
       THEN /\ responses' = <<Response(400, ErrorBody(UntrustedUrlMsg))>>
            /\ outbound' = <<>>
            /\ pc' = "done"
       ELSE /\ responses' = <<>>
            /\ outbound' = <<[to |-> "product", url |-> url]>>
            /\ pc' = "fetching"
    /\ UNCHANGED <<envVars, configVars, adminResponse, validateVars, testVars,
                   page>>

\* ---------------------------------------------------- provider factory
\* The constructor of AIProvider keeps the config it is given.
AIProvider(kind, config) == [kind |-> kind, config |-> config]

\* the factory comparing the name as given, without toLowerCase
FactoryGetProviderCaseSensitive(providerName, config) ==
    IF providerName = GeminiName
    THEN [thrown |-> FALSE, instance |-> AIProvider("gemini", config)]
    ELSE IF providerName = HuggingFaceName
    THEN [thrown |-> FALSE, instance |-> AIProvider("huggingface", config)]
    ELSE [thrown |-> TRUE,
          message |-> <<"Unknown provider '">> \o providerName \o SupportedMsg]

\* ProviderFactory.getProvider: the instance, or the error it throws
FactoryGetProvider(providerName, config) ==
    LET n == ToLowerCase(providerName)
    IN  IF n = GeminiName
        THEN [thrown |-> FALSE, instance |-> AIProvider("gemini", config)]
        ELSE IF n = HuggingFaceName
        THEN [thrown |-> FALSE, instance |-> AIProvider("huggingface", config)]
        ELSE [thrown |-> TRUE,
              message |-> <<"Unknown provider '">> \o providerName \o SupportedMsg]

\* getProvider reading the provider name of the environment's default
\* instead of the runtime config
getProviderDefaultName ==
    FactoryGetProvider(GeminiName, [apiKey |-> currentApiKey, model |-> currentModel])

\* getProvider with the key the request saw when it arrived and the name and
\* model as they are now
getProviderKeyAtStart ==
    FactoryGetProvider(currentProviderName,
                       [apiKey |-> startConfig[2], model |-> currentModel])

\* getProvider of the server: the factory on the runtime config as it is now
getProvider ==
    FactoryGetProvider(currentProviderName,
                       [apiKey |-> currentApiKey, model |-> currentModel])

\* ------------------------------------------------------ Gemini provider
Threw(msg) == [thrown |-> TRUE, message |-> msg]
Returned(v) == [thrown |-> FALSE, value |-> v]

\* const model = this.config.model || 'gemini-2.5-flash-image'
EffectiveModel(config) == IF Truthy(config.model) THEN config.model ELSE DefaultModel

\* the heuristic without its "exp" exclusion
isFreeTierFlashOnly(model) == Includes(model, <<"flash">>)

\* the "rough heuristic" of the 429 branch
isFreeTier(model) == Includes(model, <<"flash">>) /\ ~Includes(model, <<"exp">>)

QuotaMessage(model) == IF isFreeTier(model) THEN UpsellMsg ELSE GenericQuotaMsg

\* data.candidates?.[0], as a sequence of at most one candidate
FirstCandidate(data) ==
    IF "candidates" \in DOMAIN data /\ data.candidates # <<>>
    THEN <<data.candidates[1]>> ELSE <<>>

\* candidate.finishReason && candidate.finishReason !== "STOP"
IsBlocked(candidate) ==
    "finishReason" \in DOMAIN candidate /\ candidate.finishReason # "STOP"

\* the parts check without its length test
NoPartsLengthUnchecked(candidate) ==
    \/ "content" \notin DOMAIN candidate
    \/ "parts" \notin DOMAIN candidate.content

\* const parts = candidate.content?.parts; !parts || parts.length === 0
NoParts(candidate) ==
    \/ "content" \notin DOMAIN candidate
    \/ "parts" \notin DOMAIN candidate.content
    \/ candidate.content.parts = <<>>

\* generateTryOn returning the candidates alone instead of the upstream JSON
GeminiGenerateResultCandidatesOnly(model, answer) ==
    IF answer.kind = "neterr" THEN Threw(<<"fetch failed">>)
    ELSE IF answer.kind = "http"
    THEN IF answer.status = 429
         THEN Threw(SentinelPrefix \o QuotaMessage(model))
         ELSE Threw(<<"Gemini API Error ", ToString(answer.status), ": ">> \o answer.text)
    ELSE IF answer.kind = "badjson" THEN Threw(<<"Unexpected token < in JSON">>)
    ELSE LET c == FirstCandidate(answer.data)
         IN  IF c = <<>> THEN Threw(<<"Gemini returned no candidates.">>)
             ELSE IF IsBlocked(c[1])
             THEN Threw(<<"Blocked by Gemini. Reason: ", c[1].finishReason>>)
             ELSE IF NoParts(c[1])
             THEN Threw(<<"Gemini returned success but no image data.">>)
             ELSE Returned([candidates |-> answer.data.candidates])

\* GeminiProvider.generateTryOn from the answer of its fetch on: the value
\* it returns or the error it throws.  model is the local constant computed
\* before the fetch.
GeminiGenerateResult(model, answer) ==
    IF answer.kind = "neterr" THEN Threw(<<"fetch failed">>)
    ELSE IF answer.kind = "http"
    THEN IF answer.status = 429
         THEN Threw(SentinelPrefix \o QuotaMessage(model))
         ELSE Threw(<<"Gemini API Error ", ToString(answer.status), ": ">> \o answer.text)
    ELSE IF answer.kind = "badjson" THEN Threw(<<"Unexpected token < in JSON">>)
    ELSE LET c == FirstCandidate(answer.data)
         IN  IF c = <<>> THEN Threw(<<"Gemini returned no candidates.">>)
             ELSE IF IsBlocked(c[1])
             THEN Threw(<<"Blocked by Gemini. Reason: ", c[1].finishReason>>)
             ELSE IF NoParts(c[1])
             THEN Threw(<<"Gemini returned success but no image data.">>)
             ELSE Returned(answer.data)

\* ------------------------------------------------- upstream answers
ImagePart == [inline_data |-> [mime_type |-> "image/png", data |-> "b64G"]]

Candidates ==
    { [finishReason |-> "STOP", content |-> [parts |-> <<ImagePart>>]],
      [content |-> [parts |-> <<ImagePart>>]],
      [finishReason |-> "SAFETY"],
      [finishReason |-> "RECITATION", content |-> [parts |-> <<ImagePart>>]],
      [finishReason |-> "STOP", content |-> [parts |-> <<>>]],
      [finishReason |-> "STOP", content |-> [role |-> "model"]] }

GeminiData ==
    { [usageMetadata |-> "u1"], [candidates |-> <<>>, usageMetadata |-> "u1"] }
    \cup { [candidates |-> <<c>>, usageMetadata |-> "u1"] : c \in Candidates }
    \cup { [candidates |-> <<[content |-> [parts |-> <<ImagePart>>]],
                             [finishReason |-> "SAFETY"]>>,
            usageMetadata |-> "u1"] }

GeminiAnswers ==
    { [kind |-> "neterr"], [kind |-> "badjson"] }
    \cup { [kind |-> "http", status |-> st, text |-> <<"upstream said no">>] :
             st \in {429, 500} }
    \cup { [kind |-> "ok", data |-> d] : d \in GeminiData }

FetchAnswers ==
    { [kind |-> "neterr"], [kind |-> "notok", statusText |-> <<"Not Found">>],
      [kind |-> "ok"] }

ReadAnswers ==
    { [kind |-> "fail"],
      [kind |-> "ok", bytes |-> "bytesP", contentType |-> "image/png"],
      [kind |-> "ok", bytes |-> "bytesP"] }

\* ------------------------------------------------ generate-tryon handler
\* the catch block without its quota branch
CatchBlockNoQuotaBranch(message) == <<Response(500, ErrorBody(message))>>

\* the catch block of the provider-based server's handler
CatchBlock(message) ==
    IF Includes(message, Sentinel)
    THEN <<Response(429, ErrorBody(Replace(message, SentinelPrefix, <<>>)))>>
    ELSE <<Response(500, ErrorBody(message))>>

\* the catch block of server.js's handler
LegacyCatchBlock(message) ==
    IF Includes(message, <<"429">>) \/ Includes(message, <<"Quota">>)
    THEN <<Response(429, ErrorBody(
              <<"Quota", " Exceeded. Please enable billing to use the Virtual Try-On feature.">>))>>
    ELSE <<Response(500, ErrorBody(message))>>

\* a handler without a catch: the error escapes and no response is sent
CatchNothing(message) == <<>>

Catch(message) ==
    IF build = "modular" THEN CatchBlock(message) ELSE LegacyCatchBlock(message)

Finish(resps) ==
    /\ responses' = responses \o resps
    /\ pc' = "done"

\* the handler fetching the product image a second time when the first
\* fetch is rejected
ProductFetchCompleteRetrying(answer) ==
    /\ pc = "fetching"
    /\ upstream' = Append(upstream, answer)
    /\ IF answer.kind = "neterr" /\ Len(outbound) < 2
       THEN /\ outbound' = Append(outbound, [to |-> "product", url |-> productImageUrl])
            /\ UNCHANGED <<pc, responses>>
       ELSE IF answer.kind = "neterr"
       THEN Finish(Catch(<<"fetch failed">>)) /\ UNCHANGED outbound
       ELSE IF answer.kind = "notok"
       THEN /\ Finish(Catch(<<"Failed to fetch product image: ">> \o answer.statusText))
            /\ UNCHANGED outbound
       ELSE pc' = "reading" /\ UNCHANGED <<responses, outbound>>
    /\ UNCHANGED <<envVars, configVars, userImage, productImageUrl, startConfig,
                   provider, nRequests, lastRequest, adminResponse, validateVars,
                   testVars, page>>

\* await fetch(productImageUrl) settles
ProductFetchComplete(answer) ==
    /\ pc = "fetching"
    /\ upstream' = Append(upstream, answer)
    /\ IF answer.kind = "neterr" THEN Finish(Catch(<<"fetch failed">>))
       ELSE IF answer.kind = "notok"
       THEN Finish(Catch(<<"Failed to fetch product image: ">> \o answer.statusText))
       ELSE pc' = "reading" /\ UNCHANGED responses
    /\ UNCHANGED <<envVars, configVars, userImage, productImageUrl, startConfig,
                   provider, outbound, nRequests, lastRequest, adminResponse,
                   validateVars, testVars, page>>

\* the ImagePayload made of the fetched product image
ProductImage(answer) ==
    [data |-> Base64(answer.bytes),
     mimeType |-> IF "contentType" \in DOMAIN answer THEN answer.contentType
                  ELSE "image/jpeg"]

\* await productImgResponse.arrayBuffer() settles, in the provider-based
\* server: the provider is constructed and its generateTryOn runs up to its
\* first await.
ProductReadComplete(answer) ==
    /\ build = "modular"
    /\ pc = "reading"
    /\ upstream' = Append(upstream, answer)
    /\ IF answer.kind = "fail"
       THEN Finish(Catch(<<"body stream failed">>)) /\ UNCHANGED <<provider, outbound>>
       ELSE LET made == getProvider
            IN  IF made.thrown
                THEN Finish(Catch(made.message)) /\ UNCHANGED <<provider, outbound>>
                ELSE /\ provider' = made.instance
                     /\ IF made.instance.kind = "gemini"
                        THEN IF ~Truthy(made.instance.config.apiKey)
                             THEN /\ Finish(Catch(<<"Gemini API Key is missing">>))
                                  /\ UNCHANGED outbound
                             ELSE /\ outbound' = Append(outbound,
                                        [to |-> "gemini",
                                         model |-> EffectiveModel(made.instance.config),
                                         apiKey |-> made.instance.config.apiKey,
                                         userImage |-> userImage,
                                         productImage |-> ProductImage(answer)])
                                  /\ pc' = "gemini_wait"
                                  /\ UNCHANGED responses
                        ELSE /\ outbound' = Append(outbound, [to |-> "hf_connect"])
                             /\ pc' = "hf_connect"
                             /\ UNCHANGED responses
    /\ UNCHANGED <<envVars, configVars, userImage, productImageUrl, startConfig,
                   nRequests, lastRequest, adminResponse, validateVars, testVars,
                   page>>

\* the fetch of GeminiProvider.generateTryOn settles; the handler answers
GeminiComplete(answer) ==
    /\ pc = "gemini_wait"
    /\ upstream' = Append(upstream, answer)
    /\ LET model == outbound[Len(outbound)].model
           r == GeminiGenerateResult(model, answer)
       IN  IF r.thrown THEN Finish(Catch(r.message))
           ELSE Finish(<<Response(200, r.value)>>)
    /\ UNCHANGED <<envVars, configVars, userImage, productImageUrl, startConfig,
                   provider, outbound, nRequests, lastRequest, adminResponse,
                   validateVars, testVars, page>>

\* ------------------------------------------------- HuggingFace provider
TimeoutMsg ==
    <<"Timeout", ": The public AI server is too busy. Please try again in 1 minute.">>

\* the catch block of HuggingFaceProvider.generateTryOn: the message of the
\* error it throws for a caught error with this message
HfCatch(message) ==
    IF Truthy(message)
       /\ (Includes(message, <<"timeout">>) \/ Includes(message, <<"504">>))
    THEN TimeoutMsg
    ELSE <<"HF Error: ">> \o message

\* the GenerationResult HuggingFaceProvider.generateTryOn returns
HfResult(bytes) ==
    [candidates |->
        <<[content |-> [parts |-> <<[inline_data |->
                                       [mime_type |-> "image/png",
                                        data |-> Base64(bytes)]]>>],
           finishReason |-> "STOP"]>>]

HfConnectAnswers ==
    { [kind |-> "ok"],
      [kind |-> "fail", message |-> <<"Connection ", "timeout">>],
      [kind |-> "fail", message |-> <<"Space is paused">>],
      [kind |-> "fail", message |-> Undefined] }

\* result.data[0] of client.predict: an object with a url, a url string, an
\* object without a url, or nothing
HfPredictAnswers ==
    { [kind |-> "fail", message |-> <<"Gateway ", "504">>],
      [kind |-> "fail", message |-> <<"GPU quota exceeded">>],
      [kind |-> "ok", output |-> [url |-> <<"https://hf.space/file=out.png">>]],
      [kind |-> "ok", output |-> [string |-> <<"https://hf.space/file=out.png">>]],
      [kind |-> "ok", output |-> [path |-> <<"/tmp/out.png">>]],
      [kind |-> "ok", output |-> [none |-> TRUE]] }

HfReadAnswers == { [kind |-> "fail"], [kind |-> "ok", bytes |-> "bytesG"] }

\* await Client.connect(...) settles; client.predict is issued
HfConnectComplete(answer) ==
    /\ pc = "hf_connect"
    /\ upstream' = Append(upstream, answer)
    /\ IF answer.kind = "fail"
       THEN Finish(Catch(HfCatch(answer.message))) /\ UNCHANGED outbound
       ELSE /\ outbound' = Append(outbound, [to |-> "hf_predict", userImage |-> userImage])
            /\ pc' = "hf_predict"
            /\ UNCHANGED responses
    /\ UNCHANGED <<envVars, configVars, userImage, productImageUrl, startConfig,
                   provider, nRequests, lastRequest, adminResponse, validateVars,
                   testVars, page>>

\* await client.predict(...) settles; the generated image is fetched
HfPredictComplete(answer) ==
    /\ pc = "hf_predict"
    /\ upstream' = Append(upstream, answer)
    /\ IF answer.kind = "fail"
       THEN Finish(Catch(HfCatch(answer.message))) /\ UNCHANGED outbound
       ELSE IF "none" \in DOMAIN answer.output
       THEN /\ Finish(Catch(HfCatch(
                     <<"Hugging Face returned success but no image URL found.">>)))
            /\ UNCHANGED outbound
       ELSE IF "path" \in DOMAIN answer.output
       THEN \* fetch of an object that is no URL throws at once
            Finish(Catch(HfCatch(<<"Failed to parse URL">>))) /\ UNCHANGED outbound
       ELSE /\ outbound' = Append(outbound,
                  [to |-> "hf_image",
                   url |-> IF "url" \in DOMAIN answer.output THEN answer.output.url
                           ELSE answer.output.string])
            /\ pc' = "hf_download"
            /\ UNCHANGED responses
    /\ UNCHANGED <<envVars, configVars, userImage, productImageUrl, startConfig,
                   provider, nRequests, lastRequest, adminResponse, validateVars,
                   testVars, page>>

\* await fetch(imageUrl) settles
HfDownloadComplete(answer) ==
    /\ pc = "hf_download"
    /\ upstream' = Append(upstream, answer)
    /\ IF answer.kind = "neterr" THEN Finish(Catch(HfCatch(<<"fetch failed">>)))
       ELSE IF answer.kind = "notok"
       THEN Finish(Catch(HfCatch(<<"Failed to download generated image from HF">>)))
       ELSE pc' = "hf_read" /\ UNCHANGED responses
    /\ UNCHANGED <<envVars, configVars, userImage, productImageUrl, startConfig,
                   provider, outbound, nRequests, lastRequest, adminResponse,
                   validateVars, testVars, page>>

\* await imgRes.arrayBuffer() settles; generateTryOn returns and the handler
\* answers
HfReadComplete(answer) ==
    /\ pc = "hf_read"
    /\ upstream' = Append(upstream, answer)
    /\ IF answer.kind = "fail" THEN Finish(Catch(HfCatch(<<"body stream failed">>)))
       ELSE Finish(<<Response(200, HfResult(answer.bytes))>>)
    /\ UNCHANGED <<envVars, configVars, userImage, productImageUrl, startConfig,
                   provider, outbound, nRequests, lastRequest, adminResponse,
                   validateVars, testVars, page>>

\* ------------------------------------------------------ server.js handler
LegacyQuotaMsg ==
    <<"Quota", " Exceeded. The 'Virtual Try-On' feature (Image-to-Image) requires billing.">>

\* await productImgResponse.arrayBuffer() settles, in server.js: the Gemini
\* call is issued with the key of the runtime config
LegacyReadComplete(answer) ==
    /\ build = "legacy"
    /\ pc = "reading"
    /\ upstream' = Append(upstream, answer)
    /\ IF answer.kind = "fail"
       THEN Finish(Catch(<<"body stream failed">>)) /\ UNCHANGED outbound
       ELSE IF ~Truthy(currentApiKey)
       THEN /\ Finish(Catch(<<"Server Misconfiguration: GEMINI_API_KEY is missing">>))
            /\ UNCHANGED outbound
       ELSE /\ outbound' = Append(outbound,
                  [to |-> "gemini", model |-> DefaultModel, apiKey |-> currentApiKey,
                   userImage |-> userImage, productImage |-> ProductImage(answer)])
            /\ pc' = "legacy_wait"
            /\ UNCHANGED responses
    /\ UNCHANGED <<envVars, configVars, userImage, productImageUrl, startConfig,
                   provider, nRequests, lastRequest, adminResponse, validateVars,
                   testVars, page>>

\* what server.js answers to the outcome of its Gemini call
LegacyGeminiResponses(answer) ==
    IF answer.kind = "neterr" THEN LegacyCatchBlock(<<"fetch failed">>)
    ELSE IF answer.kind = "http"
    THEN IF answer.status = 429
         THEN <<Response(429, ErrorBody(LegacyQuotaMsg))>>
         ELSE LegacyCatchBlock(<<"Gemini API error: ", ToString(answer.status), " - ">>
                               \o answer.text)
    ELSE IF answer.kind = "badjson" THEN LegacyCatchBlock(<<"Unexpected token < in JSON">>)
    ELSE LET c == FirstCandidate(answer.data)
         IN  IF c = <<>>
             THEN LegacyCatchBlock(
                     <<"Gemini returned no candidates. The AI might be overloaded.">>)
             ELSE IF IsBlocked(c[1])
             THEN <<Response(400, ErrorBody(<<"AI Generation Failed. Reason: ",
                                              c[1].finishReason,
                                              ". Try a different photo.">>))>>
             ELSE IF NoParts(c[1])
             THEN <<Response(400, ErrorBody(
                      <<"The AI could not generate an image for this photo.">>))>>
             ELSE <<Response(200, answer.data)>>

LegacyGeminiComplete(answer) ==
    /\ pc = "legacy_wait"
    /\ upstream' = Append(upstream, answer)
    /\ Finish(LegacyGeminiResponses(answer))
    /\ UNCHANGED <<envVars, configVars, userImage, productImageUrl, startConfig,
                   provider, outbound, nRequests, lastRequest, adminResponse,
                   validateVars, testVars, page>>

\* --------------------------------------------------------- admin routes
adminUser == "admin"
adminPass == "admin123"

\* the Authorization header of a request, decoded: missing, or login:password
NoAuth == [missing |-> TRUE]
AuthHeaders ==
    { NoAuth, [login |-> "admin", password |-> "admin123"],
      [login |-> "admin", password |-> "guess"] }

\* the middleware comparing the login alone
authMiddlewareLoginOnly(header) == "login" \in DOMAIN header /\ header.login = adminUser

\* authMiddleware: TRUE when it calls next()
authMiddleware(header) ==
    "login" \in DOMAIN header /\ header.login = adminUser /\ header.password = adminPass

Unauthorized == Response(401, [text |-> <<"Authentication required.">>])

ProviderNames ==
    { GeminiName, <<"G", "E", "M", "I", "N", "I">>,
      HuggingFaceName, <<"H", "u", "g", "g", "i", "n", "g", "F", "a", "c", "e">>,
      <<"o", "p", "e", "n", "a", "i">>,
      <<"x", "429", "_QUOTA">> }

ModelNames ==
    { DefaultModel, <<"gemini-2.0-", "flash", "-", "exp">>, <<"gemini-", "pro">>,
      <<"gemini-", "exp", "-1206">> }

ApiKeys == { <<"k1">> }

\* req.body of POST /api/admin/config after destructuring: a field the body
\* lacks is undefined
Body(apiKey, model, prov) == [apiKey |-> apiKey, model |-> model, provider |-> prov]

ConfigBodies ==
    { Body(Undefined, Undefined, p) : p \in ProviderNames }
    \cup { Body(Undefined, m, Undefined) : m \in ModelNames \cup {<<>>} }
    \cup { Body(k, Undefined, Undefined) : k \in ApiKeys }
    \cup { Body(Undefined, Undefined, Undefined),
           Body(<<"k1">>, <<"gemini-", "pro">>, HuggingFaceName),
           Body(<<"k1">>, <<"gemini-2.0-", "flash", "-", "exp">>, GeminiName) }

\* POST /api/admin/config of the provider-based server
AdminConfig(header, body) ==
    /\ build = "modular"
    /\ nRequests < MaxRequests
    /\ nRequests' = nRequests + 1
    /\ lastRequest' = [route |-> "config", auth |-> header]
    /\ IF ~authMiddleware(header)
       THEN adminResponse' = Unauthorized /\ UNCHANGED configVars
       ELSE /\ lastConfigProvider' = body.provider
            /\ currentApiKey' = IF Truthy(body.apiKey) THEN body.apiKey ELSE currentApiKey
            /\ currentModel' = IF Truthy(body.model) THEN body.model ELSE currentModel
            /\ currentProviderName' =
                  IF Truthy(body.provider) THEN body.provider ELSE currentProviderName
            /\ adminResponse' =
                  Response(200, [success |-> TRUE,
                                 currentProvider |-> currentProviderName',
                                 currentModel |-> currentModel'])
    /\ UNCHANGED <<envVars, requestVars, validateVars, testVars, page>>

\* POST /api/admin/config of server.js: no credential check, the key only
LegacyAdminConfig(body) ==
    /\ build = "legacy"
    /\ nRequests < MaxRequests
    /\ nRequests' = nRequests + 1
    /\ lastRequest' = [route |-> "config"]
    /\ IF ~Truthy(body.apiKey)
       THEN /\ adminResponse' = Response(400, ErrorBody(<<"API Key is required">>))
            /\ UNCHANGED configVars
       ELSE /\ currentApiKey' = body.apiKey
            /\ adminResponse' = Response(200, [success |-> TRUE])
            /\ UNCHANGED <<currentProviderName, currentModel, lastConfigProvider>>
    /\ UNCHANGED <<envVars, requestVars, validateVars, testVars, page>>

\* ------------------------------------------------------- validate()
Invalid(message) == [valid |-> FALSE, error |-> message]
Valid(models) == [valid |-> TRUE, models |-> models]

\* the answers of GET /models: the fetch fails, the body is no JSON, or it
\* is this JSON, with an OK status or not
GeminiValidateAnswers ==
    { [kind |-> "neterr"], [kind |-> "badjson", ok |-> TRUE],
      [kind |-> "badjson", ok |-> FALSE],
      [kind |-> "json", ok |-> FALSE,
       data |-> [error |-> [message |-> <<"API key not valid.">>]]],
      [kind |-> "json", ok |-> FALSE, data |-> [code |-> "503"]],
      [kind |-> "json", ok |-> TRUE,
       data |-> [models |-> <<[name |-> <<"models/", "gemini-", "pro">>],
                              [name |-> <<"tuned/", "models/", "x">>]>>]],
      [kind |-> "json", ok |-> TRUE, data |-> [nextPageToken |-> "t"]],
      [kind |-> "json", ok |-> TRUE, data |-> [models |-> <<[displayName |-> "d"]>>]] }

\* the try block of GeminiProvider.validate
GeminiValidateTry(answer) ==
    IF answer.kind = "neterr" THEN Threw(<<"fetch failed">>)
    ELSE IF answer.kind = "badjson" THEN Threw(<<"Unexpected token < in JSON">>)
    ELSE IF ~answer.ok
    THEN Returned(Invalid(
            IF "error" \in DOMAIN answer.data /\ Truthy(answer.data.error.message)
            THEN answer.data.error.message ELSE <<"Validation failed">>))
    ELSE IF "models" \notin DOMAIN answer.data THEN Returned(Valid(<<>>))
    ELSE IF \E i \in 1..Len(answer.data.models) :
                "name" \notin DOMAIN answer.data.models[i]
    THEN Threw(<<"Cannot read properties of undefined (reading 'replace')">>)
    ELSE Returned(Valid([i \in 1..Len(answer.data.models) |->
                           Replace(answer.data.models[i].name, <<"models/">>, <<>>)]))

\* validate without its catch
GeminiValidateUncaught(answer) == GeminiValidateTry(answer)

\* GeminiProvider.validate from the answer of its fetch on: try and catch
GeminiValidateResult(answer) ==
    LET r == GeminiValidateTry(answer)
    IN  IF r.thrown THEN Returned(Invalid(r.message)) ELSE r

\* GeminiProvider.validate without a key
GeminiValidateNoKey == Returned(Invalid(<<"No API Key">>))

\* HuggingFaceProvider.validate from the outcome of Client.connect
HfValidateResult(answer) ==
    IF answer.kind = "fail" THEN Returned(Invalid(answer.message))
    ELSE Returned(Valid(<< <<"IDM-VTON (Public Space)">> >>))

\* what the validate-key handler answers to what validate() did
ValidateKeyResponse(r) ==
    IF r.thrown THEN Response(500, ErrorBody(r.message))
    ELSE Response(200, [result |-> r.value,
                        currentProvider |-> currentProviderName,
                        currentModel |-> currentModel])

\* POST /api/admin/validate-key arrives
ValidateStart(header) ==
    /\ build = "modular"
    /\ vpc \in {"idle", "done"}
    /\ nRequests < MaxRequests
    /\ nRequests' = nRequests + 1
    /\ lastRequest' = [route |-> "other"]
    /\ IF ~authMiddleware(header)
       THEN /\ adminResponse' = Unauthorized
            /\ vpc' = "done"
            /\ vprovider' = NoProvider
            /\ validation' = NoValidation
       ELSE LET made == getProvider
            IN  IF made.thrown
                THEN /\ adminResponse' = Response(500, ErrorBody(made.message))
                     /\ vpc' = "done"
                     /\ vprovider' = NoProvider
                     /\ validation' = NoValidation
                ELSE /\ vprovider' = made.instance
                     /\ IF made.instance.kind = "gemini"
                           /\ ~Truthy(made.instance.config.apiKey)
                        THEN /\ validation' = [call |-> "nokey",
                                               result |-> GeminiValidateNoKey]
                             /\ adminResponse' = ValidateKeyResponse(GeminiValidateNoKey)
                             /\ vpc' = "done"
                        ELSE /\ validation' = NoValidation
                             /\ adminResponse' = NoResponse
                             /\ vpc' = IF made.instance.kind = "gemini"
                                       THEN "gemini_wait" ELSE "hf_wait"
    /\ UNCHANGED <<envVars, configVars, requestVars, testVars, page>>

\* the fetch of GeminiProvider.validate settles; the handler answers
GeminiValidateComplete(answer) ==
    /\ vpc = "gemini_wait"
    /\ LET r == GeminiValidateResult(answer)
       IN  /\ validation' = [call |-> "gemini", answer |-> answer, result |-> r]
           /\ adminResponse' = ValidateKeyResponse(r)
    /\ vpc' = "done"
    /\ UNCHANGED <<envVars, configVars, requestVars, testVars, page, vprovider,
                   nRequests, lastRequest>>

\* Client.connect of HuggingFaceProvider.validate settles; the handler answers
HfValidateComplete(answer) ==
    /\ vpc = "hf_wait"
    /\ LET r == HfValidateResult(answer)
       IN  /\ validation' = [call |-> "huggingface", answer |-> answer, result |-> r]
           /\ adminResponse' = ValidateKeyResponse(r)
    /\ vpc' = "done"
    /\ UNCHANGED <<envVars, configVars, requestVars, testVars, page, vprovider,
                   nRequests, lastRequest>>

\* ------------------------------------------------- test-generation
\* Promise.all of the two fetches: one rejects, or both resolve
TestFetchAnswers ==
    { [kind |-> "neterr"],
      [kind |-> "ok", userOk |-> TRUE, prodOk |-> TRUE],
      [kind |-> "ok", userOk |-> TRUE, prodOk |-> FALSE],
      [kind |-> "ok", userOk |-> FALSE, prodOk |-> TRUE] }

TestReadAnswers == { [kind |-> "fail"], [kind |-> "ok", bytes |-> "bytesT"] }

\* the answers of the Gemini call of a test generation: one for each way
\* generateTryOn ends
TestGeminiAnswers ==
    { [kind |-> "neterr"],
      [kind |-> "http", status |-> 429, text |-> <<"upstream said no">>],
      [kind |-> "ok", data |-> [candidates |-> <<[finishReason |-> "SAFETY"]>>,
                                usageMetadata |-> "u1"]],
      [kind |-> "ok", data |-> [candidates |-> <<[finishReason |-> "STOP",
                                                  content |-> [parts |-> <<ImagePart>>]]>>,
                                usageMetadata |-> "u1"]] }

\* the handler has answered: its provider instance is dropped
TestDone(response) ==
    /\ adminResponse' = response
    /\ tprovider' = NoProvider
    /\ tpc' = "done"

\* the catch block of the test-generation handler
TestFail(message) == TestDone(Response(500, ErrorBody(message)))

\* POST /api/admin/test-generation arrives; the two fetches are issued
TestStart(header) ==
    /\ build = "modular"
    /\ tpc \in {"idle", "done"}
    /\ nRequests < MaxRequests
    /\ nRequests' = nRequests + 1
    /\ lastRequest' = [route |-> "other"]
    /\ tprovider' = NoProvider
    /\ IF ~authMiddleware(header)
       THEN adminResponse' = Unauthorized /\ tpc' = "done"
       ELSE adminResponse' = NoResponse /\ tpc' = "fetching"
    /\ UNCHANGED <<envVars, configVars, requestVars, validateVars, page>>

\* The handler from its Promise.all to the first await of generateTryOn.  The
\* three awaits in between (the two fetches, the two arrayBuffer reads) touch
\* nothing another request reads or writes, so they are taken in one step:
\* the step in which getProvider reads the runtime config.
TestDispatch(fetched, userRead, prodRead) ==
    /\ tpc = "fetching"
    /\ IF fetched.kind = "neterr" THEN TestFail(<<"fetch failed">>)
       ELSE IF ~fetched.userOk \/ ~fetched.prodOk
       THEN TestFail(<<"Failed to fetch test images">>)
       ELSE IF userRead.kind = "fail" \/ prodRead.kind = "fail"
       THEN TestFail(<<"body stream failed">>)
       ELSE LET made == getProvider
            IN  IF made.thrown THEN TestFail(made.message)
                ELSE IF made.instance.kind = "gemini"
                          /\ ~Truthy(made.instance.config.apiKey)
                THEN TestFail(<<"Gemini API Key is missing">>)
                ELSE /\ tprovider' = made.instance
                     /\ tpc' = IF made.instance.kind = "gemini" THEN "gemini_wait"
                               ELSE "hf_wait"
                     /\ UNCHANGED adminResponse
    /\ UNCHANGED <<envVars, configVars, requestVars, validateVars, page, nRequests,
                   lastRequest>>

\* the fetch of GeminiProvider.generateTryOn settles; the handler answers
TestGeminiComplete(answer) ==
    /\ tpc = "gemini_wait"
    /\ LET r == GeminiGenerateResult(EffectiveModel(tprovider.config), answer)
       IN  IF r.thrown THEN TestFail(r.message)
           ELSE TestDone(Response(200, r.value))
    /\ UNCHANGED <<envVars, configVars, requestVars, validateVars, page, nRequests,
                   lastRequest>>

\* HuggingFaceProvider.generateTryOn from the answers of its awaits (connect,
\* predict, the download and the read of the generated image, as far as the
\* run got): the value it returns or the error it throws
HfGenerateResult(run) ==
    IF run.connected.kind = "fail" THEN Threw(HfCatch(run.connected.message))
    ELSE IF run.predicted.kind = "fail" THEN Threw(HfCatch(run.predicted.message))
    ELSE IF "none" \in DOMAIN run.predicted.output
    THEN Threw(HfCatch(<<"Hugging Face returned success but no image URL found.">>))
    ELSE IF "path" \in DOMAIN run.predicted.output
    THEN Threw(HfCatch(<<"Failed to parse URL">>))
    ELSE IF run.downloaded.kind = "neterr" THEN Threw(HfCatch(<<"fetch failed">>))
    ELSE IF run.downloaded.kind = "notok"
    THEN Threw(HfCatch(<<"Failed to download generated image from HF">>))
    ELSE IF run.read.kind = "fail" THEN Threw(HfCatch(<<"body stream failed">>))
    ELSE Returned(HfResult(run.read.bytes))

\* the answers of the four awaits of a test generation through HuggingFace:
\* one run for each way generateTryOn ends (the timeout message, another
\* error, a result)
TestHfRuns ==
    { [connected |-> [kind |-> "fail", message |-> <<"Connection ", "timeout">>]],
      [connected |-> [kind |-> "ok"],
       predicted |-> [kind |-> "fail", message |-> <<"GPU quota exceeded">>]],
      [connected |-> [kind |-> "ok"],
       predicted |-> [kind |-> "ok",
                      output |-> [url |-> <<"https://hf.space/file=out.png">>]],
       downloaded |-> [kind |-> "ok"],
       read |-> [kind |-> "ok", bytes |-> "bytesG"]] }

\* HuggingFaceProvider.generateTryOn of a test generation settles; the
\* handler answers
TestHfComplete(run) ==
    /\ tpc = "hf_wait"
    /\ LET r == HfGenerateResult(run)
       IN  IF r.thrown THEN TestFail(r.message)
           ELSE TestDone(Response(200, r.value))
    /\ UNCHANGED <<envVars, configVars, requestVars, validateVars, page, nRequests,
                   lastRequest>>

\* ----------------------------------------------------------- GET routes
\* GET /: the status page, which names the provider in the provider-based
\* server
HealthCheck ==
    /\ nRequests < MaxRequests
    /\ nRequests' = nRequests + 1
    /\ lastRequest' = [route |-> "other"]
    /\ page' = IF build = "modular"
               THEN Response(200, [provider |-> currentProviderName])
               ELSE Response(200, [text |-> <<"Try-On API is running. Status: Bulletproof.">>])
    /\ UNCHANGED <<envVars, configVars, requestVars, adminResponse, validateVars,
                   testVars>>

\* GET /admin: the dashboard file, behind authMiddleware in the
\* provider-based server
AdminDashboard(header) ==
    /\ nRequests < MaxRequests
    /\ nRequests' = nRequests + 1
    /\ lastRequest' = [route |-> "other"]
    /\ page' = IF build = "modular" /\ ~authMiddleware(header) THEN Unauthorized
               ELSE Response(200, [file |-> "dashboard.html"])
    /\ UNCHANGED <<envVars, configVars, requestVars, adminResponse, validateVars,
                   testVars>>

Next ==
    \/ \E h \in AuthHeaders : TestStart(h)
    \/ \E f \in TestFetchAnswers, u \in TestReadAnswers, p \in TestReadAnswers :
          TestDispatch(f, u, p)
    \/ \E a \in TestGeminiAnswers : TestGeminiComplete(a)
    \/ \E run \in TestHfRuns : TestHfComplete(run)
    \/ HealthCheck
    \/ \E h \in AuthHeaders : AdminDashboard(h)
    \/ \E ui \in UserImages, url \in UrlInputs : GenerateStart(ui, url)
    \/ \E a \in FetchAnswers : ProductFetchComplete(a)
    \/ \E a \in ReadAnswers : ProductReadComplete(a)
    \/ \E a \in GeminiAnswers : GeminiComplete(a)
    \/ \E a \in HfConnectAnswers : HfConnectComplete(a)
    \/ \E a \in HfPredictAnswers : HfPredictComplete(a)
    \/ \E a \in FetchAnswers : HfDownloadComplete(a)
    \/ \E a \in HfReadAnswers : HfReadComplete(a)
    \/ \E a \in ReadAnswers : LegacyReadComplete(a)
    \/ \E a \in GeminiAnswers : LegacyGeminiComplete(a)
    \/ \E h \in AuthHeaders, b \in ConfigBodies : AdminConfig(h, b)
    \/ \E b \in ConfigBodies : LegacyAdminConfig(b)
    \/ \E h \in AuthHeaders : ValidateStart(h)
    \/ \E a \in GeminiValidateAnswers : GeminiValidateComplete(a)
    \/ \E a \in HfConnectAnswers : HfValidateComplete(a)

Spec == Init /\ [][Next]_vars

\* an outbound call of the generate-tryon request in flight settles
GenerateStep ==
    \/ \E a \in FetchAnswers : ProductFetchComplete(a)
    \/ \E a \in ReadAnswers : ProductReadComplete(a)
    \/ \E a \in GeminiAnswers : GeminiComplete(a)
    \/ \E a \in HfConnectAnswers : HfConnectComplete(a)
    \/ \E a \in HfPredictAnswers : HfPredictComplete(a)
    \/ \E a \in FetchAnswers : HfDownloadComplete(a)
    \/ \E a \in HfReadAnswers : HfReadComplete(a)
    \/ \E a \in ReadAnswers : LegacyReadComplete(a)
    \/ \E a \in GeminiAnswers : LegacyGeminiComplete(a)

\* the server when every outbound call of a request settles
FairSpec == Spec /\ WF_vars(GenerateStep)

\* =================================================================
\* Properties
\* =================================================================

\* the allowlist each value of TRUSTED_DOMAINS stands for, entry by entry
AllowlistOf(e) ==
    { defaultTrusted[k] : k \in 1..Len(defaultTrusted) }
    \cup (IF e = Undefined THEN {}
          ELSE IF e = <<"example", ".", "org", ",">>
          THEN { <<"example", ".", "org">>, <<>> }
          ELSE { <<"example", ".", "org">>, <<"mycdn", ".", "io">> })

\* h ends with e: some tail of h is e
HasSuffix(h, e) == \E k \in 0..Len(h) : SubSeq(h, k + 1, Len(h)) = e

\* the URL does not pass the SSRF guard: it does not parse, its scheme is
\* not http or https, or its hostname ends with no allowlist entry
FailsGuard(url) ==
    \/ "protocol" \notin DOMAIN url
    \/ url.protocol \notin {"http:", "https:"}
    \/ \A e \in AllowlistOf(trustedDomainsEnv) : ~HasSuffix(url.hostname, e)

\* C1: a generate-tryon request whose productImageUrl does not pass the SSRF
\* guard is answered 400, and neither a fetch of that URL nor a provider call
\* is ever issued for it.
C1_RejectedUrlNeverFetched ==
    (pc # "idle" /\ userImage # NoImage /\ FailsGuard(productImageUrl))
        => /\ pc = "done"
           /\ Len(responses) = 1
           /\ responses[1].status = 400
           /\ outbound = <<>>
           /\ provider = NoProvider

C1_Witness ==
    /\ pc = "done"
    /\ userImage # NoImage
    /\ "protocol" \in DOMAIN productImageUrl
    /\ productImageUrl.protocol = "file:"
    /\ productImageUrl.hostname = <<"shopify", ".", "com">>
    /\ responses = <<Response(400, ErrorBody(UntrustedUrlMsg))>>

\* the request in flight has reached the point where its provider is chosen:
\* the product image has been read
Dispatching == build = "modular" /\ pc = "reading"

\* C2: once an authenticated config update with provider "huggingface" has
\* been processed and no other config update after it, a generate-tryon
\* request that reaches its provider call is dispatched through the
\* HuggingFace provider, never through Gemini.
C2_HuggingFaceAfterConfig ==
    [][ (Dispatching /\ lastConfigProvider = HuggingFaceName /\ pc' # pc)
            => /\ pc' \in {"hf_connect", "done"}
               /\ provider'.kind # "gemini"
               /\ \A i \in 1..Len(outbound') : outbound'[i].to # "gemini"
               /\ (upstream'[Len(upstream')].kind = "ok"
                      => /\ pc' = "hf_connect"
                         /\ provider'.kind = "huggingface"
                         /\ outbound'[Len(outbound')].to = "hf_connect") ]_vars

C2_Witness ==
    /\ pc = "hf_connect"
    /\ lastConfigProvider = HuggingFaceName
    /\ provider.kind = "huggingface"
    /\ nRequests = 2

\* the Gemini call of the request has been answered and the handler is done
GeminiAnswered ==
    /\ pc = "done"
    /\ Len(outbound) = 2
    /\ outbound[2].to = "gemini"
    /\ Len(upstream) = 3

LastAnswer == upstream[Len(upstream)]

\* the upstream JSON has a first candidate whose finishReason is present and
\* is not "STOP"
FirstCandidateBlocked(data) ==
    /\ "candidates" \in DOMAIN data
    /\ Len(data.candidates) >= 1
    /\ "finishReason" \in DOMAIN data.candidates[1]
    /\ data.candidates[1].finishReason # "STOP"

\* C3: when Gemini answers with success and a first candidate whose
\* finishReason is present and not "STOP", generate-tryon responds 400 with an
\* error message that mentions the finishReason.
C3_BlockedIs400 ==
    (GeminiAnswered /\ LastAnswer.kind = "ok" /\ FirstCandidateBlocked(LastAnswer.data))
        => /\ Len(responses) = 1
           /\ responses[1].status = 400
           /\ "error" \in DOMAIN responses[1].body
           /\ Includes(responses[1].body.error,
                       <<LastAnswer.data.candidates[1].finishReason>>)

HasToken(m, t) == \E i \in 1..Len(m) : m[i] = t

\* the model name the Gemini provider of the request works with: the
\* configured one, or the default when none is configured
ModelInEffect ==
    IF provider.config.model \notin {Undefined, <<>>} THEN provider.config.model
    ELSE <<"gemini-2.5-", "flash", "-image">>

\* C5: on a Gemini 429 the provider selects the billing-upsell message
\* exactly when the effective model name contains "flash" and does not
\* contain "exp", and the generic quota message otherwise.
C5_UpsellIffFlashNotExp ==
    (build = "modular" /\ GeminiAnswered /\ LastAnswer.kind = "http"
       /\ LastAnswer.status = 429)
        => /\ outbound[2].model = ModelInEffect
           /\ IF HasToken(ModelInEffect, "flash") /\ ~HasToken(ModelInEffect, "exp")
              THEN responses[1].body.error = UpsellMsg
              ELSE responses[1].body.error = GenericQuotaMsg

C5_Witness ==
    /\ build = "modular"
    /\ GeminiAnswered
    /\ LastAnswer.kind = "http"
    /\ LastAnswer.status = 429
    /\ provider.config.model = <<"gemini-2.0-", "flash", "-", "exp">>
    /\ responses[1].body.error = GenericQuotaMsg

UpperOf(c) ==
    CASE c = "g" -> "G" [] c = "e" -> "E" [] c = "m" -> "M" [] c = "i" -> "I"
      [] c = "n" -> "N" [] c = "h" -> "H" [] c = "u" -> "U" [] c = "f" -> "F"
      [] c = "a" -> "A" [] c = "c" -> "C" [] OTHER -> c

\* n is word with some of its letters in upper case
CaseVariantOf(n, word) ==
    /\ Len(n) = Len(word)
    /\ \A i \in 1..Len(word) : n[i] \in {word[i], UpperOf(word[i])}

NamesSupportedSet(msg) ==
    \E i \in 1..Len(msg) :
        /\ i + 17 <= Len(msg)
        /\ SubSeq(msg, i, i + 5) = <<"g", "e", "m", "i", "n", "i">>
        /\ SubSeq(msg, i + 7, i + 17)
             = <<"h", "u", "g", "g", "i", "n", "g", "f", "a", "c", "e">>

\* C6: the factory returns a Gemini provider for every case variant of
\* "gemini", a HuggingFace provider for every case variant of "huggingface",
\* and for every other name constructs nothing and fails with an error naming
\* the supported set.  Stated of the step in which a request whose product
\* image was read calls the factory with the provider name of the runtime
\* config.
C6_FactoryMapping ==
    [][ (Dispatching /\ pc' # pc /\ upstream'[Len(upstream')].kind = "ok")
            => IF CaseVariantOf(currentProviderName, <<"g", "e", "m", "i", "n", "i">>)
               THEN provider' = [kind |-> "gemini",
                                 config |-> [apiKey |-> currentApiKey,
                                             model |-> currentModel]]
               ELSE IF CaseVariantOf(currentProviderName,
                          <<"h", "u", "g", "g", "i", "n", "g", "f", "a", "c", "e">>)
               THEN provider' = [kind |-> "huggingface",
                                 config |-> [apiKey |-> currentApiKey,
                                             model |-> currentModel]]
               ELSE /\ provider' = NoProvider
                    /\ outbound' = outbound
                    /\ pc' = "done"
                    /\ "error" \in DOMAIN responses'[1].body
                    /\ NamesSupportedSet(responses'[1].body.error) ]_vars

C6_Witness ==
    /\ build = "modular"
    /\ pc = "hf_connect"
    /\ currentProviderName = <<"H", "u", "g", "g", "i", "n", "g", "F", "a", "c", "e">>
    /\ provider.kind = "huggingface"

C6_WitnessUnknown ==
    /\ build = "modular"
    /\ pc = "done"
    /\ Len(upstream) = 2
    /\ upstream[2].kind = "ok"
    /\ currentProviderName = <<"o", "p", "e", "n", "a", "i">>
    /\ provider = NoProvider
    /\ NamesSupportedSet(responses[1].body.error)

Answered200 == pc = "done" /\ Len(responses) >= 1 /\ responses[1].status = 200

\* a non-empty candidates list whose first element has non-empty
\* content.parts and a finishReason that is "STOP" or absent
WellFormedResult(b) ==
    /\ "candidates" \in DOMAIN b
    /\ Len(b.candidates) >= 1
    /\ "content" \in DOMAIN b.candidates[1]
    /\ "parts" \in DOMAIN b.candidates[1].content
    /\ Len(b.candidates[1].content.parts) >= 1
    /\ ("finishReason" \in DOMAIN b.candidates[1]
          => b.candidates[1].finishReason = "STOP")

\* exactly one candidate, finishReason "STOP", one part carrying
\* inline_data.{mime_type, data}
HuggingFaceShape(b) ==
    /\ DOMAIN b = {"candidates"}
    /\ Len(b.candidates) = 1
    /\ DOMAIN b.candidates[1] = {"content", "finishReason"}
    /\ b.candidates[1].finishReason = "STOP"
    /\ Len(b.candidates[1].content.parts) = 1
    /\ DOMAIN b.candidates[1].content.parts[1] = {"inline_data"}
    /\ DOMAIN b.candidates[1].content.parts[1].inline_data = {"mime_type", "data"}

\* C7: every value generateTryOn returns, which is the body of every 200
\* response of generate-tryon, has a non-empty candidates list whose first
\* element has non-empty content.parts and a finishReason "STOP" or absent;
\* the HuggingFace result is one candidate with one inline_data part and
\* finishReason "STOP".
C7_ResultShape ==
    Answered200
        => /\ WellFormedResult(responses[1].body)
           /\ (provider.kind = "huggingface" => HuggingFaceShape(responses[1].body))

C7_Witness == Answered200 /\ provider.kind = "huggingface"

\* the upstream JSON is a usable generation: a first candidate that is not
\* blocked and has parts
UsableGeneration(data) ==
    /\ "candidates" \in DOMAIN data
    /\ Len(data.candidates) >= 1
    /\ ~FirstCandidateBlocked(data)
    /\ "content" \in DOMAIN data.candidates[1]
    /\ "parts" \in DOMAIN data.candidates[1].content
    /\ Len(data.candidates[1].content.parts) >= 1

HuggingFaceAnswered ==
    /\ pc = "done"
    /\ provider.kind = "huggingface"
    /\ Len(upstream) = 6
    /\ \A i \in 1..6 : upstream[i].kind = "ok"

\* C8: when the request passes validation, the product image is fetched
\* and the provider returns a result, the response is 200 with exactly that
\* result as body; for Gemini the result is the upstream JSON unchanged.
C8_ResultRelayedUnchanged ==
    /\ (GeminiAnswered /\ LastAnswer.kind = "ok" /\ UsableGeneration(LastAnswer.data))
          => responses = <<[status |-> 200, body |-> LastAnswer.data]>>
    /\ HuggingFaceAnswered
          => responses =
               <<[status |-> 200,
                  body |-> [candidates |->
                     <<[content |-> [parts |-> <<[inline_data |->
                                         [mime_type |-> "image/png", data |-> "b64G"]]>>],
                        finishReason |-> "STOP"]>>]]>>

C8_Witness ==
    /\ build = "modular"
    /\ GeminiAnswered
    /\ LastAnswer.kind = "ok"
    /\ Answered200
    /\ responses[1].body.usageMetadata = "u1"

\* the validate() call failed: no key, the upstream call failed, answered a
\* non-OK status or a body that is no JSON
ValidationFailed ==
    \/ validation.call = "nokey"
    \/ validation.call = "gemini"
          /\ (validation.answer.kind \in {"neterr", "badjson"} \/ ~validation.answer.ok)
    \/ validation.call = "huggingface" /\ validation.answer.kind = "fail"

\* C9: validate() of both providers never throws; on every failure the value
\* it returns is {valid: false, error}.
C9_ValidateNeverThrows ==
    validation # NoValidation
        => /\ ~validation.result.thrown
           /\ "valid" \in DOMAIN validation.result.value
           /\ (ValidationFailed
                  => /\ validation.result.value.valid = FALSE
                     /\ DOMAIN validation.result.value = {"valid", "error"})

C9_Witness ==
    /\ validation # NoValidation
    /\ validation.call = "gemini"
    /\ validation.answer.kind = "badjson"
    /\ validation.result.value.valid = FALSE
    /\ adminResponse.status = 200

InFlight == pc \notin {"idle", "done"}

\* C10: a generate-tryon request whose outbound calls all settle is answered
\* exactly once, with a status in {200, 400, 429, 500}: nothing is sent while
\* it is in flight, it ends, and when it has ended one response has been sent.
C10_AnsweredExactlyOnce ==
    /\ [](InFlight => responses = <<>>)
    /\ [](pc = "done" => /\ Len(responses) = 1
                         /\ responses[1].status \in {200, 400, 429, 500})
    /\ (InFlight ~> pc = "done")

C10_Witness ==
    /\ pc = "done"
    /\ Len(upstream) = 2
    /\ upstream[2].kind = "fail"
    /\ Len(responses) = 1
    /\ responses[1].status = 500

\* the outbound calls of the request in flight that went to this target
CallsTo(target) == {i \in 1..Len(outbound) : outbound[i].to = target}

\* the upstream call did not succeed: it was rejected, answered a non-OK
\* status or a body that cannot be read
FailedCall(answer) == answer.kind \in {"neterr", "notok", "fail", "http", "badjson"}

\* C12: no retries.  Within one generate-tryon request the product image is
\* fetched at most once and each call of the provider's generation (the
\* Gemini call; connect, predict and the image download for HuggingFace) is
\* issued at most once; the step in which an upstream call fails ends the
\* request with an error response (429 or 500) and issues no further call,
\* and a request that has ended issues none either.
C12_NoRetries ==
    /\ [](\A t \in {"product", "gemini", "hf_connect", "hf_predict", "hf_image"} :
             Cardinality(CallsTo(t)) <= 1)
    /\ [][ /\ (Len(upstream') = Len(upstream) + 1 /\ FailedCall(upstream'[Len(upstream')]))
               => /\ pc' = "done"
                  /\ outbound' = outbound
                  /\ Len(responses') = 1
                  /\ responses'[1].status \in {429, 500}
                  /\ "error" \in DOMAIN responses'[1].body
           /\ (pc = "done" /\ nRequests' = nRequests) => outbound' = outbound ]_vars

C12_Witness ==
    /\ pc = "done"
    /\ Len(outbound) = 2
    /\ outbound[1].to = "product"
    /\ outbound[2].to = "gemini"
    /\ Len(upstream) = 3
    /\ upstream[3].kind = "neterr"
    /\ responses = <<Response(500, ErrorBody(<<"fetch failed">>))>>

RuntimeConfig == <<currentProviderName, currentApiKey, currentModel>>

\* the admin credentials of the default environment
ValidCredentials == [login |-> "admin", password |-> "admin123"]

\* C11: in the provider-based server the runtime config (provider name, key,
\* model) changes only in a step that receives a POST /api/admin/config
\* carrying the admin credentials and answers it 200; every other step
\* (generate-tryon, validate-key, test-generation and the GET routes at
\* every point of their course, with or without credentials) leaves the
\* three fields as they are, and a config update without the admin
\* credentials is answered 401 and changes nothing.
C11_ConfigChangesOnlyByAuthorizedUpdate ==
    [][ build = "modular"
          => /\ (RuntimeConfig' # RuntimeConfig
                   => /\ nRequests' = nRequests + 1
                      /\ lastRequest' = [route |-> "config", auth |-> ValidCredentials]
                      /\ "status" \in DOMAIN adminResponse'
                      /\ adminResponse'.status = 200
                      /\ <<pc, vpc, tpc, page>>' = <<pc, vpc, tpc, page>>)
             /\ ((nRequests' = nRequests + 1 /\ lastRequest'.route = "config"
                     /\ lastRequest'.auth # ValidCredentials)
                   => /\ adminResponse'.status = 401
                      /\ RuntimeConfig' = RuntimeConfig) ]_vars

C11_Witness ==
    /\ build = "modular"
    /\ tpc = "done"
    /\ lastRequest = [route |-> "config", auth |-> ValidCredentials]
    /\ currentProviderName = <<"h", "u", "g", "g", "i", "n", "g", "f", "a", "c", "e">>
    /\ adminResponse.status = 200

\* the provider instance of the request is the one the factory makes of the
\* runtime config c = <<provider name, key, model>>
BuiltFrom(c) ==
    /\ provider.config = [apiKey |-> c[2], model |-> c[3]]
    /\ provider.kind = "gemini"
          => CaseVariantOf(c[1], <<"g", "e", "m", "i", "n", "i">>)
    /\ provider.kind = "huggingface"
          => CaseVariantOf(c[1], <<"h", "u", "g", "g", "i", "n", "g", "f", "a", "c", "e">>)

\* C13: a generate-tryon request uses the runtime config as it was when the
\* request arrived: its provider instance is the one that config gives,
\* whatever config updates were processed while it was suspended.
C13_UsesConfigAsAtStart ==
    (build = "modular" /\ provider # NoProvider) => BuiltFrom(startConfig)

\* C14: a generate-tryon request constructs its provider instance once, in a
\* step that reads the provider name, the key and the model of one and the
\* same runtime config state; the Gemini call carries the key and model of
\* the instance; and no config update, before or after, alters the instance
\* or the call issued: the instance stays as constructed until the next
\* request arrives.
C14_OneInstanceFromOneConfigState ==
    [][ build = "modular"
          => /\ (provider' # provider /\ provider' # NoProvider)
                   => /\ provider = NoProvider
                      /\ pc = "reading"
                      /\ RuntimeConfig' = RuntimeConfig
                      /\ provider'.config = [apiKey |-> currentApiKey,
                                             model |-> currentModel]
                      /\ provider'.kind = "gemini"
                            => CaseVariantOf(currentProviderName,
                                             <<"g", "e", "m", "i", "n", "i">>)
                      /\ provider'.kind = "huggingface"
                            => CaseVariantOf(currentProviderName,
                                  <<"h", "u", "g", "g", "i", "n", "g", "f", "a", "c", "e">>)
             /\ (provider # NoProvider /\ provider' # provider)
                   => pc = "done" /\ provider' = NoProvider /\ nRequests' = nRequests + 1
             /\ (Len(outbound') = Len(outbound) + 1
                     /\ outbound'[Len(outbound')].to = "gemini")
                   => /\ outbound'[Len(outbound')].apiKey = provider'.config.apiKey
                      /\ outbound'[Len(outbound')].model = provider'.config.model
             /\ RuntimeConfig' # RuntimeConfig
                   => provider' = provider /\ outbound' = outbound ]_vars

C14_Witness ==
    /\ build = "modular"
    /\ pc = "gemini_wait"
    /\ provider.config = [apiKey |-> <<"k0">>,
                          model |-> <<"gemini-2.5-", "flash", "-image">>]
    /\ outbound[2].apiKey = <<"k0">>
    /\ currentApiKey = <<"k1">>
    /\ currentModel = <<"gemini-", "pro">>

\* the request was turned away by the SSRF guard: it carried both fields,
\* it has been answered, and no fetch was issued for it
TurnedAway ==
    /\ pc = "done"
    /\ userImage # NoImage
    /\ productImageUrl # NoUrl
    /\ outbound = <<>>

\* what the guard's try block can say of a URL, and the pieces of its hostname
ReasonTexts(url) ==
    {"Invalid URL", "Invalid protocol", "Domain not trusted: "}
    \cup (IF "hostname" \in DOMAIN url
          THEN {url.hostname[i] : i \in 1..Len(url.hostname)} \ {"."}
          ELSE {})

\* C15: the response to a request the SSRF guard turns away is the same
\* whatever the URL and the allowlist: status 400 with the one fixed message,
\* which contains neither the hostname nor the reason of the rejection.
C15_RejectionIsUniform ==
    TurnedAway
        => /\ responses =
                 <<[status |-> 400,
                    body |-> [error |-> <<"Invalid or untrusted product image URL.">>]]>>
           /\ \A i \in 1..Len(responses[1].body.error) :
                  responses[1].body.error[i] \notin ReasonTexts(productImageUrl)

C15_Witness ==
    /\ TurnedAway
    /\ "hostname" \in DOMAIN productImageUrl
    /\ productImageUrl.protocol = "https:"
    /\ productImageUrl.hostname =
          <<"cdn", ".", "shopify", ".", "com", ".", "attacker", ".", "net">>
    /\ responses[1].status = 400

\* the request passed the SSRF guard: the fetch of its product image was issued
PassedGuard == Len(outbound) >= 1 /\ outbound[1].to = "product"

\* h is a trusted domain or a subdomain of one: it is a non-empty allowlist
\* entry, or ends with "." followed by one
TrustedOrSubdomain(h) ==
    \E e \in AllowlistOf(trustedDomainsEnv) \ {<<>>} :
        h = e \/ HasSuffix(h, <<".">> \o e)

\* C16: whatever TRUSTED_DOMAINS holds, a hostname passes the SSRF allowlist
\* only if it is a trusted domain or a subdomain of one; a hostname that
\* holds an entry in a non-final position or only shares its last characters
\* with one is rejected.
C16_OnlyTrustedDomainsPass ==
    PassedGuard => TrustedOrSubdomain(productImageUrl.hostname)

\* the name is no case variant of a supported provider name
Unsupported(name) ==
    /\ ~CaseVariantOf(name, <<"g", "e", "m", "i", "n", "i">>)
    /\ ~CaseVariantOf(name, <<"h", "u", "g", "g", "i", "n", "g", "f", "a", "c", "e">>)

\* C17: a config update with the admin credentials stores any non-empty
\* provider name, supported or not, and reports success; and while the name
\* stored is unsupported, every generate-tryon request that passed the SSRF
\* guard and whose product image was fetched and read fails at that point,
\* with status 500 and the factory's error naming the supported set, no
\* provider call issued, and the handler done (ready for the next request).
C17_UnknownProviderFailsEachRequest ==
    [][ build = "modular"
          => /\ (nRequests' = nRequests + 1
                    /\ lastRequest' = [route |-> "config", auth |-> ValidCredentials]
                    /\ lastConfigProvider' \notin {<<"undefined">>, <<>>})
                   => /\ currentProviderName' = lastConfigProvider'
                      /\ adminResponse'.status = 200
                      /\ adminResponse'.body.success
                      /\ adminResponse'.body.currentProvider = lastConfigProvider'
             /\ (Dispatching /\ pc' # pc /\ upstream'[Len(upstream')].kind = "ok"
                    /\ Unsupported(currentProviderName))
                   => /\ pc' = "done"
                      /\ Len(upstream') = 2
                      /\ outbound' = outbound
                      /\ Len(outbound') = 1
                      /\ Len(responses') = 1
                      /\ responses'[1].status = 500
                      /\ "error" \in DOMAIN responses'[1].body
                      /\ NamesSupportedSet(responses'[1].body.error) ]_vars
====
